---- MODULE Spec2Model ----
(***************************************************************************)
(* Model of src/linkedin.py: the /extract pipeline that turns a LinkedIn   *)
(* profile URL into a slug, asks Google CSE for results, scores them,      *)
(* selects at most one candidate, structures its snippet and classifies    *)
(* the outcome.                                                            *)
(*                                                                         *)
(* A Python str is modelled as a sequence of one-character strings; the    *)
(* middle dot and the bullet are the atoms "MIDDOT" and "BULLET".          *)
(* Four specifications share the variables:                                *)
(*   Spec        the request handler extract_profile, step by step         *)
(*   SpecScore   score_result applied to one result                        *)
(*   SpecSelect  select_best_result applied to a result list               *)
(*   SpecStruct  structure_google_snippet applied to a title and snippet   *)
(***************************************************************************)
EXTENDS Integers, Sequences, FiniteSets, TLC

VARIABLES pc, url, slug, reply, results, response, calls,
          result, score, best, title, snippet, data

vars == <<pc, url, slug, reply, results, response, calls,
          result, score, best, title, snippet, data>>

\* Python's None, and the value of a variable a specification does not use.
None == "None"

(***************************************************************************)
(* Python str operations                                                   *)
(***************************************************************************)
Whitespace == {" ", "\t", "\n"}

Uppers == <<"A","B","C","D","E","F","G","H","I","J","K","L","M","N","O","P","Q","R","S","T","U","V","W","X","Y","Z">>  \* "ABCDEFGHIJKLMNOPQRSTUVWXYZ"
Lowers == <<"a","b","c","d","e","f","g","h","i","j","k","l","m","n","o","p","q","r","s","t","u","v","w","x","y","z">>  \* "abcdefghijklmnopqrstuvwxyz"

UpperSet == {Uppers[i] : i \in 1..Len(Uppers)}
LowerSet == {Lowers[i] : i \in 1..Len(Lowers)}

\* The lower-case letter of each upper-case one, and the reverse.
ToLower == [c \in UpperSet |-> Lowers[CHOOSE i \in 1..Len(Uppers) : Uppers[i] = c]]
ToUpper == [c \in LowerSet |-> Uppers[CHOOSE i \in 1..Len(Lowers) : Lowers[i] = c]]

IsUpper(c) == c \in UpperSet
IsLower(c) == c \in LowerSet

LowerChar(c) == IF IsUpper(c) THEN ToLower[c] ELSE c
UpperChar(c) == IF IsLower(c) THEN ToUpper[c] ELSE c

\* str.lower()
Lower(s) == [i \in 1..Len(s) |-> LowerChar(s[i])]

\* sub in s
Contains(sub, s) ==
    \E i \in 0..(Len(s) - Len(sub)) : SubSeq(s, i + 1, i + Len(sub)) = sub

\* The least index >= from of a character of s in set C, Len(s) + 1 if none.
IndexIn(s, C, from) ==
    IF \E i \in from..Len(s) : s[i] \in C
    THEN CHOOSE i \in from..Len(s) :
            s[i] \in C /\ \A j \in from..(i - 1) : s[j] \notin C
    ELSE Len(s) + 1

\* The least index >= from of a character of s not in set C, Len(s) + 1 if none.
IndexNotIn(s, C, from) ==
    IF \E i \in from..Len(s) : s[i] \notin C
    THEN CHOOSE i \in from..Len(s) :
            s[i] \notin C /\ \A j \in from..(i - 1) : s[j] \in C
    ELSE Len(s) + 1

\* str.replace(old, new) for one-character old and new
RECURSIVE Replace(_, _, _)
Replace(s, old, new) ==
    IF s = <<>> THEN <<>>
    ELSE <<IF Head(s) = old THEN new ELSE Head(s)>> \o Replace(Tail(s), old, new)

\* str.split() with no separator: runs of non-whitespace, no empty strings
RECURSIVE SplitWhitespace(_)
SplitWhitespace(s) ==
    LET a == IndexNotIn(s, Whitespace, 1)
    IN  IF a > Len(s) THEN <<>>
        ELSE LET b == IndexIn(s, Whitespace, a)
             IN  <<SubSeq(s, a, b - 1)>> \o SplitWhitespace(SubSeq(s, b, Len(s)))

\* re.split(r"[C]", s) and s.split(c): every separator splits, empty parts kept
RECURSIVE SplitOn(_, _)
SplitOn(s, C) ==
    LET i == IndexIn(s, C, 1)
    IN  IF i > Len(s) THEN <<s>>
        ELSE <<SubSeq(s, 1, i - 1)>> \o SplitOn(SubSeq(s, i + 1, Len(s)), C)

\* s.split(c, 1): at most one split, at the first c
SplitOnce(s, c) ==
    LET i == IndexIn(s, {c}, 1)
    IN  IF i > Len(s) THEN <<s>>
        ELSE <<SubSeq(s, 1, i - 1), SubSeq(s, i + 1, Len(s))>>

\* str.strip()
Strip(s) ==
    LET a == IndexNotIn(s, Whitespace, 1)
    IN  IF a > Len(s) THEN <<>>
        ELSE LET b == CHOOSE j \in a..Len(s) :
                        s[j] \notin Whitespace
                        /\ \A k \in (j + 1)..Len(s) : s[k] \in Whitespace
             IN  SubSeq(s, a, b)

\* str.title(): a letter is upper-cased after a non-letter, lower-cased after a letter
Title(s) ==
    [i \in 1..Len(s) |->
        IF i > 1 /\ (IsUpper(s[i - 1]) \/ IsLower(s[i - 1]))
        THEN LowerChar(s[i]) ELSE UpperChar(s[i])]

(***************************************************************************)
(* String constants of the program                                         *)
(***************************************************************************)
LINKEDIN_IN    == <<"l","i","n","k","e","d","i","n",".","c","o","m","/","i","n","/">>  \* "linkedin.com/in/"
EXPERIENCE_KEY == <<"e","x","p","e","r","i","e","n","c","e",":">>  \* "experience:"
EDUCATION_KEY  == <<"e","d","u","c","a","t","i","o","n",":">>  \* "education:"
LOCATION_KEY   == <<"l","o","c","a","t","i","o","n",":">>  \* "location:"
ELLIPSIS       == <<".",".",".">>  \* "..."
EMPTY          == <<>>

(***************************************************************************)
(* Scoring engine                                                          *)
(***************************************************************************)
\* score_result with the education marker worth 10 instead of 5
score_result_edu10(r, sl) ==
    LET u  == Lower(r.url)
        t  == Lower(r.title)
        sn == Lower(r.snippet)
        s  == Lower(sl)
        slug_parts == SplitWhitespace(Replace(s, "-", " "))
        s0 == 0
        s1 == IF Contains(LINKEDIN_IN, u) THEN s0 + 20 ELSE s0
        s2 == IF Contains(s, u) THEN s1 + 40 ELSE s1
        s3 == IF \A k \in 1..Len(slug_parts) : Contains(slug_parts[k], t)
              THEN s2 + 20 ELSE s2
        s4 == IF Contains(EXPERIENCE_KEY, sn) THEN s3 + 5 ELSE s3
        s5 == IF Contains(EDUCATION_KEY, sn) THEN s4 + 10 ELSE s4
        s6 == IF Contains(LOCATION_KEY, sn) THEN s5 + 10 ELSE s5
    IN  s6

\* score_result(result, slug): score starts at 0 and each test adds its weight
score_result(r, sl) ==
    LET u  == Lower(r.url)
        t  == Lower(r.title)
        sn == Lower(r.snippet)
        s  == Lower(sl)
        slug_parts == SplitWhitespace(Replace(s, "-", " "))
        s0 == 0
        s1 == IF Contains(LINKEDIN_IN, u) THEN s0 + 20 ELSE s0
        s2 == IF Contains(s, u) THEN s1 + 40 ELSE s1
        s3 == IF \A k \in 1..Len(slug_parts) : Contains(slug_parts[k], t)
              THEN s2 + 20 ELSE s2
        s4 == IF Contains(EXPERIENCE_KEY, sn) THEN s3 + 5 ELSE s3
        s5 == IF Contains(EDUCATION_KEY, sn) THEN s4 + 5 ELSE s4
        s6 == IF Contains(LOCATION_KEY, sn) THEN s5 + 10 ELSE s5
    IN  s6

\* The acceptance threshold of select_best_result.
ACCEPT_THRESHOLD == 50

\* Optional[...]: None is the empty sequence, a value v is <<v>>.
NoValue == <<>>
Some(v) == <<v>>

\* One step of list.sort(key=score, reverse=True): x goes after every entry
\* whose score is >= its own, so equal scores keep their input order.
InsertDesc(x, sorted) ==
    LET i == IF \E k \in 1..Len(sorted) : sorted[k][1] < x[1]
             THEN CHOOSE k \in 1..Len(sorted) :
                     sorted[k][1] < x[1] /\ \A j \in 1..(k - 1) : sorted[j][1] >= x[1]
             ELSE Len(sorted) + 1
    IN  SubSeq(sorted, 1, i - 1) \o <<x>> \o SubSeq(sorted, i, Len(sorted))

\* scored.sort(key=lambda x: x[0], reverse=True) on the first n entries
RECURSIVE SortDesc(_, _)
SortDesc(scored, n) ==
    IF n = 0 THEN <<>> ELSE InsertDesc(scored[n], SortDesc(scored, n - 1))

\* select_best_result that reads scored[0] without sorting
select_best_result_nosort(rs, sl) ==
    LET scored == [i \in 1..Len(rs) |-> <<score_result(rs[i], sl), rs[i]>>]
        best_score  == scored[1][1]
        best_result == scored[1][2]
    IN  IF best_score < ACCEPT_THRESHOLD THEN NoValue ELSE Some(best_result)

\* select_best_result that rejects a score equal to the threshold
select_best_result_strict(rs, sl) ==
    LET scored == [i \in 1..Len(rs) |-> <<score_result(rs[i], sl), rs[i]>>]
        sorted == SortDesc(scored, Len(scored))
        best_score  == sorted[1][1]
        best_result == sorted[1][2]
    IN  IF best_score <= ACCEPT_THRESHOLD THEN NoValue ELSE Some(best_result)

\* select_best_result(results, slug), for a non-empty list
select_best_result(rs, sl) ==
    LET scored == [i \in 1..Len(rs) |-> <<score_result(rs[i], sl), rs[i]>>]
        sorted == SortDesc(scored, Len(scored))
        best_score  == sorted[1][1]
        best_result == sorted[1][2]
    IN  IF best_score < ACCEPT_THRESHOLD THEN NoValue ELSE Some(best_result)

\* has_any_slug_match that compares the URL without lower-casing it
has_any_slug_match_cased(rs, sl) ==
    \E i \in 1..Len(rs) : Contains(Lower(sl), rs[i].url)

\* has_any_slug_match(results, slug)
has_any_slug_match(rs, sl) ==
    \E i \in 1..Len(rs) : Contains(Lower(sl), Lower(rs[i].url))

(***************************************************************************)
(* Structuring logic                                                       *)
(***************************************************************************)
KNOWN_CITIES ==
    << <<"m","u","m","b","a","i">>, <<"p","u","n","e">>, <<"d","e","l","h","i">>, <<"b","a","n","g","a","l","o","r","e">>, <<"b","e","n","g","a","l","u","r","u">>,  \* "mumbai" , "pune" , "delhi" , "bangalore" , "bengaluru"
       <<"h","y","d","e","r","a","b","a","d">>, <<"c","h","e","n","n","a","i">>, <<"k","o","l","k","a","t","a">>, <<"a","h","m","e","d","a","b","a","d">>,  \* "hyderabad" , "chennai" , "kolkata" , "ahmedabad"
       <<"i","n","d","i","a">>, <<"n","e","w"," ","y","o","r","k">>, <<"l","o","n","d","o","n">> >>  \* "india" , "new york" , "london"

ROLE_KEYWORDS ==
    << <<"s","t","u","d","e","n","t">>, <<"e","n","g","i","n","e","e","r">>, <<"d","e","v","e","l","o","p","e","r">>, <<"d","e","s","i","g","n","e","r">>,  \* "student" , "engineer" , "developer" , "designer"
       <<"a","n","a","l","y","s","t">>, <<"s","p","e","c","i","a","l","i","s","t">>, <<"m","a","n","a","g","e","r">> >>  \* "analyst" , "specialist" , "manager"

SEPARATORS == {"MIDDOT", "|", "BULLET"}

\* A dict with string keys; {} is the function with the empty domain.
EmptyDict == [k \in {} |-> <<>>]
Put(d, key, v) == [k \in DOMAIN d \cup {key} |-> IF k = key THEN v ELSE d[k]]
Update(d, e) == [k \in DOMAIN d \cup DOMAIN e |-> IF k \in DOMAIN e THEN e[k] ELSE d[k]]

\* for p in parts[i..]: if word in p.lower(): v = p.split(":", 1)[-1].strip();
\*                       if v and v != "...": data[field] = v
RECURSIVE ScanParts(_, _, _, _, _)
ScanParts(d, parts, i, word, field) ==
    IF i > Len(parts) THEN d
    ELSE LET p  == parts[i]
             sp == SplitOnce(p, ":")
             v  == Strip(sp[Len(sp)])
             d1 == IF Contains(word, Lower(p)) /\ v # EMPTY /\ v # ELLIPSIS
                   THEN Put(d, field, v) ELSE d
         IN  ScanParts(d1, parts, i + 1, word, field)

\* for city in KNOWN_CITIES[i..]: if city in snippet.lower(): set location; break
RECURSIVE ScanCities(_, _, _)
ScanCities(d, sn, i) ==
    IF i > Len(KNOWN_CITIES) THEN d
    ELSE IF Contains(KNOWN_CITIES[i], Lower(sn))
         THEN Put(d, "location", Title(KNOWN_CITIES[i]))
         ELSE ScanCities(d, sn, i + 1)

\* Whether a role keyword matches s at index i, ignoring case.
KeywordAt(s, i) ==
    \E k \in 1..Len(ROLE_KEYWORDS) :
        /\ i + Len(ROLE_KEYWORDS[k]) - 1 <= Len(s)
        /\ Lower(SubSeq(s, i, i + Len(ROLE_KEYWORDS[k]) - 1)) = ROLE_KEYWORDS[k]

\* re.search(r"(student|...|manager)[^.,]*", s, re.IGNORECASE): the leftmost
\* keyword, extended up to the next "." or ","; NoValue when nothing matches.
HeadlineMatch(s) ==
    IF \E i \in 1..Len(s) : KeywordAt(s, i)
    THEN LET i == CHOOSE i \in 1..Len(s) :
                     KeywordAt(s, i) /\ \A j \in 1..(i - 1) : ~KeywordAt(s, j)
             k == CHOOSE k \in 1..Len(ROLE_KEYWORDS) :
                     /\ i + Len(ROLE_KEYWORDS[k]) - 1 <= Len(s)
                     /\ Lower(SubSeq(s, i, i + Len(ROLE_KEYWORDS[k]) - 1)) = ROLE_KEYWORDS[k]
             e == IndexIn(s, {".", ","}, i + Len(ROLE_KEYWORDS[k]))
         IN  Some(SubSeq(s, i, e - 1))
    ELSE NoValue

\* structure_google_snippet(title, snippet)
structure_google_snippet(t, sn) ==
    LET d0 == EmptyDict
        name == Strip(SplitOn(t, {"-"})[1])
        d1 == IF Contains(<<"-">>, t) /\ name # EMPTY THEN Put(d0, "name", name) ELSE d0
        raw == SplitOn(sn, SEPARATORS)
        parts == [i \in 1..Len(raw) |-> Strip(raw[i])]
        d2 == IF Len(parts) > 0 /\ parts[1] # EMPTY /\ parts[1] # ELLIPSIS
              THEN Put(d1, "about", parts[1]) ELSE d1
        d3 == ScanParts(d2, parts, 1, <<"e","x","p","e","r","i","e","n","c","e">>, "experience")  \* "experience"
        d4 == ScanParts(d3, parts, 1, <<"e","d","u","c","a","t","i","o","n">>, "education")  \* "education"
        d5 == ScanCities(d4, sn, 1)
        m  == IF "about" \in DOMAIN d5 THEN HeadlineMatch(d5["about"]) ELSE NoValue
        d6 == IF m # NoValue THEN Put(d5, "headline", Strip(m[1])) ELSE d5
    IN  d6

(***************************************************************************)
(* Response builder                                                        *)
(***************************************************************************)
\* confidence_map.get(status, 0.1); the floats are kept as their literals
Confidence(status) ==
    CASE status = "public_structured" -> "0.9"
      [] status = "ambiguous"         -> "0.4"
      [] status = "not_found"         -> "0.2"
      [] OTHER                        -> "0.1"

\* build_response(status, reason_code, reason_message, **extra)
build_response(status, reason_code, reason_message, extra) ==
    Update([k \in {"status", "confidence", "reason_code", "reason_message"} |->
               CASE k = "status"         -> status
                 [] k = "confidence"     -> Confidence(status)
                 [] k = "reason_code"    -> reason_code
                 [] k = "reason_message" -> reason_message],
           extra)

(***************************************************************************)
(* Identifier extraction and the search collaborator                       *)
(***************************************************************************)
\* Whether r"linkedin\.com/in/([^/]+)" matches l at index i.
SlugAt(l, i) ==
    /\ i + Len(LINKEDIN_IN) <= Len(l)
    /\ SubSeq(l, i, i + Len(LINKEDIN_IN) - 1) = LINKEDIN_IN
    /\ l[i + Len(LINKEDIN_IN)] # "/"

\* extract_slug(url): re.search(r"linkedin\.com/in/([^/]+)/?", url.lower()),
\* group 1 of the leftmost match, None without a match
extract_slug(u) ==
    LET l == Lower(u)
    IN  IF \E i \in 1..Len(l) : SlugAt(l, i)
        THEN LET i == CHOOSE i \in 1..Len(l) :
                         SlugAt(l, i) /\ \A j \in 1..(i - 1) : ~SlugAt(l, j)
                 a == i + Len(LINKEDIN_IN)
             IN  Some(SubSeq(l, a, IndexIn(l, {"/"}, a) - 1))
        ELSE NoValue

\* dict.get(key, default)
Get(d, key, default) == IF key \in DOMAIN d THEN d[key] ELSE default

\* What requests.get(...) followed by resp.json() can do: raise (no connection,
\* the 10 s timeout, a body that is not JSON) or yield the decoded JSON value.
RAISING_KINDS == {"ConnectionError", "Timeout", "JSONDecodeError"}

Returned(v) == [raised |-> FALSE, value |-> v]
Raised(e)   == [raised |-> TRUE, exc |-> e]

\* google_cse_search(slug) against the provider's reply rep: the try block
\* covers only the request and the decoding; the rest runs outside it.
google_cse_search(rep) ==
    IF rep.kind \in RAISING_KINDS THEN Returned(<<>>)
    ELSE LET json == rep.data
         IN  IF json.type # "object"
             THEN \* "error" in data is False for a list; data.get then fails
                  Raised("AttributeError")
             ELSE IF "error" \in DOMAIN json.members THEN Returned(<<>>)
             ELSE LET items == Get(json.members, "items", <<>>)
                  IN  Returned([i \in 1..Len(items) |->
                                   [title   |-> Get(items[i], "title", EMPTY),
                                    snippet |-> Get(items[i], "snippet", EMPTY),
                                    url     |-> Get(items[i], "link", EMPTY)]])

(***************************************************************************)
(* The API handler                                                         *)
(***************************************************************************)
MSG_NO_RESULTS == "Google did not return any LinkedIn profiles for this URL."
MSG_NO_SLUG    == "LinkedIn profile may be private, removed, or not indexed by Google. Google returned profiles, but none match the requested LinkedIn URL."
MSG_AMBIGUOUS  == "Multiple LinkedIn profiles partially match the query. Unable to determine the correct profile with high confidence."
MSG_PUBLIC     == "Public LinkedIn profile found and structured using Google public data."

\* extract_profile from "if not results" on: the response it returns
Classify(rs, sl) ==
    IF rs = <<>>
    THEN build_response("not_found", "GOOGLE_NO_RESULTS", MSG_NO_RESULTS,
                        [raw_google_data |-> <<>>])
    ELSE LET b == select_best_result(rs, sl)
         IN  IF b = NoValue /\ ~has_any_slug_match(rs, sl)
             THEN build_response("not_found", "NO_SLUG_MATCH", MSG_NO_SLUG,
                                 [raw_google_data |-> <<>>])
             ELSE IF b = NoValue
             THEN build_response("ambiguous", "MULTIPLE_CANDIDATES", MSG_AMBIGUOUS,
                                 [raw_google_data |-> rs])
             ELSE build_response("public_structured", "PROFILE_PUBLIC", MSG_PUBLIC,
                                 [raw_google_data |-> b[1],
                                  structured_data |->
                                      structure_google_snippet(b[1].title, b[1].snippet)])

\* The functions extract_profile calls from "if not results" on, in call order.
ClassifyCalls(rs, sl) ==
    IF rs = <<>> THEN <<"build_response">>
    ELSE <<"select_best_result">>
         \o (IF select_best_result(rs, sl) = NoValue
             THEN <<"has_any_slug_match">> ELSE <<"structure_google_snippet">>)
         \o <<"build_response">>

(***************************************************************************)
(* Bounds and input pools                                                  *)
(***************************************************************************)
\* The longest "items" list of a provider reply.
MaxItems == 2
\* The longest result list handed to select_best_result in SpecSelect.
MaxResults == 2
\* The most segments of a snippet in SpecStruct.
MaxSegs == 3

\* All sequences over S of length lo..hi.
SeqsOf(S, lo, hi) == UNION {[1..n -> S] : n \in lo..hi}

\* linkedin_url values of a request; the last four hold no slug.
RequestUrls ==
    { <<"h","t","t","p","s",":","/","/","w","w","w",".","l","i","n","k","e","d","i","n",".","c","o","m","/","i","n","/","j","o","-","l","i","/">>,  \* "https://www.linkedin.com/in/jo-li/"
      <<"h","t","t","p","s",":","/","/","L","i","n","k","e","d","I","n",".","c","o","m","/","i","n","/","J","o","-","L","i">>,  \* "https://LinkedIn.com/in/Jo-Li"
      <<"l","i","n","k","e","d","i","n",".","c","o","m","/","i","n","/","j","o","-","l","i","?","t","r","k","=","x">>,  \* "linkedin.com/in/jo-li?trk=x"
      <<"h","t","t","p","s",":","/","/","l","i","n","k","e","d","i","n",".","c","o","m","/","c","o","m","p","a","n","y","/","j","o","-","l","i">>,  \* "https://linkedin.com/company/jo-li"
      <<"h","t","t","p","s",":","/","/","l","i","n","k","e","d","i","n",".","c","o","m","/","i","n","/","/","j","o","-","l","i">>,  \* "https://linkedin.com/in//jo-li"
      <<"l","i","n","k","e","d","i","n",".","c","o","m","/","i","n","/">>,  \* "linkedin.com/in/"
      EMPTY }

\* "items" entries of a provider reply, as decoded JSON objects.
Item(t, sn, l) == [k \in {"title", "snippet", "link"} |->
                      CASE k = "title" -> t [] k = "snippet" -> sn [] k = "link" -> l]

ItemPool ==
    { Item(<<"J","o"," ","L","i"," ","-"," ","D","e","v">>,  \* "Jo Li - Dev"
           <<"E","n","g","i","n","e","e","r"," ","a","t"," ","X"," ","MIDDOT"," ","E","x","p","e","r","i","e","n","c","e",":"," ","A","c","m","e"," ","MIDDOT"," ","E","d","u","c","a","t","i","o","n",":"," ","M","I","T"," ","MIDDOT"," ","L","o","c","a","t","i","o","n",":"," ","P","u","n","e">>,  \* "Engineer at X {middot} Experience: Acme {middot} Education: MIT {middot} Location: Pune"
           <<"h","t","t","p","s",":","/","/","w","w","w",".","l","i","n","k","e","d","i","n",".","c","o","m","/","i","n","/","j","o","-","l","i">>),  \* "https://www.linkedin.com/in/jo-li"
      Item(<<"J","o"," ","L","i">>, <<"L","o","c","a","t","i","o","n",":"," ","P","u","n","e">>, <<"h","t","t","p","s",":","/","/","l","i","n","k","e","d","i","n",".","c","o","m","/","i","n","/","j","o","-","m","a">>),  \* "Jo Li" , "Location: Pune" , "https://linkedin.com/in/jo-ma"
      Item(<<"J","o"," ","L","i">>, <<"E","d","u","c","a","t","i","o","n",":"," ","M","I","T">>, <<"h","t","t","p","s",":","/","/","l","i","n","k","e","d","i","n",".","c","o","m","/","i","n","/","j","o","-","m","a">>),  \* "Jo Li" , "Education: MIT" , "https://linkedin.com/in/jo-ma"
      Item(<<"J","o"," ","M","a">>, EMPTY, <<"h","t","t","p","s",":","/","/","l","i","n","k","e","d","i","n",".","c","o","m","/","i","n","/","j","o","-","m","a">>),  \* "Jo Ma" , "https://linkedin.com/in/jo-ma"
      Item(<<"B","l","o","g">>, EMPTY, <<"h","t","t","p","s",":","/","/","x",".","i","o","/","j","o","-","l","i">>),  \* "Blog" , "https://x.io/jo-li"
      Item(<<"B","l","o","g">>, <<"e","x","p","e","r","i","e","n","c","e",":"," ","a"," ","|"," ","e","d","u","c","a","t","i","o","n",":"," ","b">>, <<"h","t","t","p","s",":","/","/","x",".","i","o","/","J","O","-","L","I">>),  \* "Blog" , "experience: a | education: b" , "https://x.io/JO-LI"
      Item(<<"B","l","o","g">>, <<"E","x","p","e","r","i","e","n","c","e",":"," ","a">>, <<"h","t","t","p","s",":","/","/","x",".","i","o","/","J","o","-","L","i">>),  \* "Blog" , "Experience: a" , "https://x.io/Jo-Li"
      Item(<<"N","e","w","s">>, ELLIPSIS, <<"h","t","t","p","s",":","/","/","x",".","i","o","/">>),  \* "News" , "https://x.io/"
      [k \in {"title"} |-> <<"J","o"," ","L","i">>] }  \* "Jo Li"

JsonObject(m) == [type |-> "object", members |-> m]
JsonArray(e)  == [type |-> "array", elems |-> e]

\* What the one call to the provider can come back with.
Replies ==
    {[kind |-> k] : k \in RAISING_KINDS}
    \cup {[kind |-> "json", data |-> d] : d \in
            { JsonObject([k \in {"error"} |-> [code |-> 403]]),
              JsonObject([k \in {"kind"} |-> "customsearch#search"]),
              JsonArray(<<>>) }
            \cup {JsonObject([k \in {"items"} |-> its]) : its \in SeqsOf(ItemPool, 0, MaxItems)}}

\* Inputs of score_result in SpecScore.
ScoreUrls ==
    { <<"h","t","t","p","s",":","/","/","w","w","w",".","l","i","n","k","e","d","i","n",".","c","o","m","/","i","n","/","j","o","-","l","i">>,  \* "https://www.linkedin.com/in/jo-li"
      <<"h","t","t","p","s",":","/","/","L","i","n","k","e","d","I","n",".","c","o","m","/","i","n","/","J","O","-","L","I","/">>,  \* "https://LinkedIn.com/in/JO-LI/"
      <<"h","t","t","p","s",":","/","/","l","i","n","k","e","d","i","n",".","c","o","m","/","i","n","/","j","o","-","m","a">>,  \* "https://linkedin.com/in/jo-ma"
      <<"h","t","t","p","s",":","/","/","x",".","i","o","/","j","o","-","l","i">>,  \* "https://x.io/jo-li"
      <<"h","t","t","p","s",":","/","/","x",".","i","o","/">> }  \* "https://x.io/"

ScoreTitles == { <<"J","o"," ","L","i"," ","-"," ","D","e","v">>, <<"L","I",","," ","J","O">>, <<"J","o"," ","M","a">>, EMPTY }  \* "Jo Li - Dev" , "LI, JO" , "Jo Ma"

ScoreSnippets ==
    { EMPTY,
      <<"E","x","p","e","r","i","e","n","c","e",":"," ","A">>,  \* "Experience: A"
      <<"E","d","u","c","a","t","i","o","n",":"," ","B">>,  \* "Education: B"
      <<"L","o","c","a","t","i","o","n",":"," ","C">>,  \* "Location: C"
      <<"e","x","p","e","r","i","e","n","c","e",":"," ","a"," ","MIDDOT"," ","e","d","u","c","a","t","i","o","n",":"," ","b">>,  \* "experience: a {middot} education: b"
      <<"E","X","P","E","R","I","E","N","C","E",":"," ","A"," ","|"," ","L","O","C","A","T","I","O","N",":"," ","C">>,  \* "EXPERIENCE: A | LOCATION: C"
      <<"E","d","u","c","a","t","i","o","n",":"," ","B"," ","BULLET"," ","L","o","c","a","t","i","o","n",":"," ","C">>,  \* "Education: B {bullet} Location: C"
      <<"E","x","p","e","r","i","e","n","c","e",":"," ","A"," ","MIDDOT"," ","E","d","u","c","a","t","i","o","n",":"," ","B"," ","MIDDOT"," ","L","o","c","a","t","i","o","n",":"," ","C">>,  \* "Experience: A {middot} Education: B {middot} Location: C"
      <<"E","x","p","e","r","i","e","n","c","e"," ","A",","," ","E","d","u","c","a","t","i","o","n"," ","B">> }  \* "Experience A, Education B"

ScoreSlugs == { <<"j","o","-","l","i">>, <<"J","o","-","L","i">>, <<"j","o">>, <<"j","o"," ","l","i">> }  \* "jo-li" , "Jo-Li" , "jo" , "jo li"

ScoreResults == [title : ScoreTitles, snippet : ScoreSnippets, url : ScoreUrls]

\* Inputs of select_best_result in SpecSelect: results scoring 100, 100, 50, 50,
\* 45, 20 and 0 against the slug jo-li.
Result(t, sn, u) == [title |-> t, snippet |-> sn, url |-> u]

SelectPool ==
    { Result(<<"J","o"," ","L","i"," ","-"," ","D","e","v">>, <<"E","x","p","e","r","i","e","n","c","e",":"," ","A"," ","MIDDOT"," ","E","d","u","c","a","t","i","o","n",":"," ","B"," ","MIDDOT"," ","L","o","c","a","t","i","o","n",":"," ","C">>,  \* "Jo Li - Dev" , "Experience: A {middot} Education: B {middot} Location: C"
             <<"h","t","t","p","s",":","/","/","l","i","n","k","e","d","i","n",".","c","o","m","/","i","n","/","j","o","-","l","i">>),  \* "https://linkedin.com/in/jo-li"
      Result(<<"J","o"," ","L","i"," ","|"," ","D","e","v">>, <<"L","o","c","a","t","i","o","n",":"," ","C"," ","MIDDOT"," ","E","d","u","c","a","t","i","o","n",":"," ","B"," ","MIDDOT"," ","E","x","p","e","r","i","e","n","c","e",":"," ","A">>,  \* "Jo Li | Dev" , "Location: C {middot} Education: B {middot} Experience: A"
             <<"h","t","t","p","s",":","/","/","w","w","w",".","l","i","n","k","e","d","i","n",".","c","o","m","/","i","n","/","j","o","-","l","i">>),  \* "https://www.linkedin.com/in/jo-li"
      Result(<<"J","o"," ","L","i">>, <<"L","o","c","a","t","i","o","n",":"," ","P","u","n","e">>, <<"h","t","t","p","s",":","/","/","l","i","n","k","e","d","i","n",".","c","o","m","/","i","n","/","j","o","-","m","a">>),  \* "Jo Li" , "Location: Pune" , "https://linkedin.com/in/jo-ma"
      Result(<<"B","l","o","g">>, <<"e","x","p","e","r","i","e","n","c","e",":"," ","a"," ","|"," ","e","d","u","c","a","t","i","o","n",":"," ","b">>, <<"h","t","t","p","s",":","/","/","x",".","i","o","/","j","o","-","l","i">>),  \* "Blog" , "experience: a | education: b" , "https://x.io/jo-li"
      Result(<<"B","l","o","g">>, <<"E","x","p","e","r","i","e","n","c","e",":"," ","a">>, <<"h","t","t","p","s",":","/","/","x",".","i","o","/","j","o","-","l","i">>),  \* "Blog" , "Experience: a" , "https://x.io/jo-li"
      Result(<<"J","o"," ","M","a">>, EMPTY, <<"h","t","t","p","s",":","/","/","l","i","n","k","e","d","i","n",".","c","o","m","/","i","n","/","j","o","-","m","a">>),  \* "Jo Ma" , "https://linkedin.com/in/jo-ma"
      Result(<<"N","e","w","s">>, ELLIPSIS, <<"h","t","t","p","s",":","/","/","x",".","i","o","/">>) }  \* "News" , "https://x.io/"

SelectSlugs == { <<"j","o","-","l","i">>, <<"J","O","-","L","I">> }  \* "jo-li" , "JO-LI"

\* Inputs of structure_google_snippet in SpecStruct: a snippet is 1..MaxSegs
\* segments joined by the separators, taken in turn.
StructTitles == { <<"J","o"," ","L","i"," ","-"," ","D","e","v">>, <<".",".","."," ","-"," ","D","e","v">>, <<" ","-"," ","D","e","v">>, <<"J","o"," ","L","i">>, EMPTY }  \* "Jo Li - Dev" , "... - Dev" , " - Dev" , "Jo Li"

SegPool ==
    { EMPTY,
      <<" ">>,  \* " "
      ELLIPSIS,
      <<" ","E","n","g","i","n","e","e","r"," ","a","t"," ","X",","," ","P","u","n","e","."," ">>,  \* " Engineer at X, Pune. "
      <<"E","x","p","e","r","i","e","n","c","e",":"," ","A","c","m","e">>,  \* "Experience: Acme"
      <<"E","x","p","e","r","i","e","n","c","e",":"," ","B","e","t","a">>,  \* "Experience: Beta"
      <<"e","x","p","e","r","i","e","n","c","e",":"," ",".",".",".">>,  \* "experience: ..."
      <<"5"," ","y","r","s"," ","e","x","p","e","r","i","e","n","c","e">>,  \* "5 yrs experience"
      <<"E","d","u","c","a","t","i","o","n",":"," ","M","I","T">>,  \* "Education: MIT"
      <<"E","d","u","c","a","t","i","o","n",":">>,  \* "Education:"
      <<"M","a","n","a","g","e","r"," ","i","n"," ","N","E","W"," ","Y","O","R","K">> }  \* "Manager in NEW YORK"

SepAt(i) == CASE i % 3 = 1 -> "MIDDOT" [] i % 3 = 2 -> "|" [] OTHER -> "BULLET"

RECURSIVE JoinSegs(_, _)
JoinSegs(segs, n) ==
    IF n = 1 THEN segs[1]
    ELSE JoinSegs(segs, n - 1) \o <<SepAt(n - 1)>> \o segs[n]

StructSnippets == {JoinSegs(segs, Len(segs)) : segs \in SeqsOf(SegPool, 1, MaxSegs)}

(***************************************************************************)
(* Spec: one request through extract_profile                               *)
(***************************************************************************)
Init ==
    /\ pc = "start"
    /\ url \in RequestUrls
    /\ slug = None
    /\ reply = None
    /\ results = None
    /\ response = None
    /\ calls = <<>>
    /\ result = None /\ score = None /\ best = None
    /\ title = None /\ snippet = None /\ data = None

\* Validate without the "if not slug: raise": the request always goes on
Validate_noreject ==
    /\ pc = "start"
    /\ slug' = extract_slug(url)
    /\ calls' = calls \o <<"extract_slug">>
    /\ pc' = "validated"
    /\ UNCHANGED <<url, reply, results, response, result, score, best, title, snippet, data>>

\* slug = extract_slug(req.linkedin_url); if not slug: raise HTTPException(400)
Validate ==
    /\ pc = "start"
    /\ slug' = extract_slug(url)
    /\ calls' = calls \o <<"extract_slug">>
    /\ IF slug' = NoValue
       THEN /\ pc' = "rejected"
            /\ response' = [status_code |-> 400, detail |-> "Invalid LinkedIn URL"]
       ELSE /\ pc' = "validated"
            /\ UNCHANGED response
    /\ UNCHANGED <<url, reply, results, result, score, best, title, snippet, data>>

\* results = google_cse_search(slug); an exception it lets through ends the
\* request as a server error
Search ==
    /\ pc = "validated"
    /\ \E rep \in Replies :
          /\ reply' = rep
          /\ LET out == google_cse_search(rep)
             IN  IF out.raised
                 THEN /\ pc' = "fault"
                      /\ response' = [status_code |-> 500, detail |-> out.exc]
                      /\ UNCHANGED results
                 ELSE /\ pc' = "searched"
                      /\ results' = out.value
                      /\ UNCHANGED response
    /\ calls' = calls \o <<"google_cse_search">>
    /\ UNCHANGED <<url, slug, result, score, best, title, snippet, data>>

\* the four cases of extract_profile
Respond ==
    /\ pc = "searched"
    /\ response' = Classify(results, slug[1])
    /\ calls' = calls \o ClassifyCalls(results, slug[1])
    /\ pc' = "done"
    /\ UNCHANGED <<url, slug, reply, results, result, score, best, title, snippet, data>>

Next == Validate \/ Search \/ Respond

Spec == Init /\ [][Next]_vars

(***************************************************************************)
(* SpecScore: score_result on one result                                   *)
(***************************************************************************)
ScoreInit ==
    /\ pc = "score_input"
    /\ result \in ScoreResults
    /\ slug \in {Some(s) : s \in ScoreSlugs}
    /\ score = None
    /\ url = None /\ reply = None /\ results = None /\ response = None
    /\ calls = <<>> /\ best = None
    /\ title = None /\ snippet = None /\ data = None

ScoreStep ==
    /\ pc = "score_input"
    /\ score' = score_result(result, slug[1])
    /\ pc' = "scored"
    /\ UNCHANGED <<url, slug, reply, results, response, calls, result, best,
                   title, snippet, data>>

ScoreNext == ScoreStep

SpecScore == ScoreInit /\ [][ScoreNext]_vars

(***************************************************************************)
(* SpecSelect: select_best_result on a non-empty result list               *)
(***************************************************************************)
SelectInit ==
    /\ pc = "select_input"
    /\ results \in SeqsOf(SelectPool, 1, MaxResults)
    /\ slug \in {Some(s) : s \in SelectSlugs}
    /\ best = None
    /\ url = None /\ reply = None /\ response = None
    /\ calls = <<>> /\ result = None /\ score = None
    /\ title = None /\ snippet = None /\ data = None

SelectStep ==
    /\ pc = "select_input"
    /\ best' = select_best_result(results, slug[1])
    /\ pc' = "selected"
    /\ UNCHANGED <<url, slug, reply, results, response, calls, result, score,
                   title, snippet, data>>

SelectNext == SelectStep

SpecSelect == SelectInit /\ [][SelectNext]_vars

(***************************************************************************)
(* SpecStruct: structure_google_snippet on a title and a snippet           *)
(***************************************************************************)
StructInit ==
    /\ pc = "struct_input"
    /\ title \in StructTitles
    /\ snippet \in StructSnippets
    /\ data = None
    /\ url = None /\ slug = None /\ reply = None /\ results = None
    /\ response = None /\ calls = <<>>
    /\ result = None /\ score = None /\ best = None

StructStep ==
    /\ pc = "struct_input"
    /\ data' = structure_google_snippet(title, snippet)
    /\ pc' = "structured"
    /\ UNCHANGED <<url, slug, reply, results, response, calls, result, score,
                   best, title, snippet>>

StructNext == StructStep

SpecStruct == StructInit /\ [][StructNext]_vars

(***************************************************************************)
(* C3: score_result is the sum of the weights of the signals that hold     *)
(***************************************************************************)
\* The signals and weights as the specification's table states them; a signal
\* is decided on its own, comparing characters without regard to case.
SameChar(a, b) == LowerChar(a) = LowerChar(b)

CIContains(sub, s) ==
    \E off \in 0..(Len(s) - Len(sub)) :
        \A k \in 1..Len(sub) : SameChar(sub[k], s[off + k])

TokenBreaks == Whitespace \cup {"-"}

\* The whitespace/hyphen-separated tokens of a slug: its maximal runs of other
\* characters.
SlugTokens(sl) ==
    { SubSeq(sl, a, b) : <<a, b>> \in
        { <<i, j>> \in (1..Len(sl)) \X (1..Len(sl)) :
            /\ i <= j
            /\ \A k \in i..j : sl[k] \notin TokenBreaks
            /\ (i = 1 \/ sl[i - 1] \in TokenBreaks)
            /\ (j = Len(sl) \/ sl[j + 1] \in TokenBreaks) } }

SignalNames == {"path", "slug", "tokens", "experience", "education", "location"}

Holds(sig, r, sl) ==
    CASE sig = "path"       -> CIContains(LINKEDIN_IN, r.url)
      [] sig = "slug"       -> CIContains(sl, r.url)
      [] sig = "tokens"     -> \A tok \in SlugTokens(sl) : CIContains(tok, r.title)
      [] sig = "experience" -> CIContains(EXPERIENCE_KEY, r.snippet)
      [] sig = "education"  -> CIContains(EDUCATION_KEY, r.snippet)
      [] sig = "location"   -> CIContains(LOCATION_KEY, r.snippet)

Signals(r, sl) == {sig \in SignalNames : Holds(sig, r, sl)}

Weight(sig) ==
    CASE sig = "path" -> 20 [] sig = "slug" -> 40 [] sig = "tokens" -> 20
      [] sig = "experience" -> 5 [] sig = "education" -> 5 [] sig = "location" -> 10

RECURSIVE WeightSum(_)
WeightSum(S) ==
    IF S = {} THEN 0
    ELSE LET sig == CHOOSE x \in S : TRUE IN Weight(sig) + WeightSum(S \ {sig})

\* The results of the pool that differ from r in at most one field.
OneFieldChanged(r) ==
    {[r EXCEPT !.url = u] : u \in ScoreUrls}
    \cup {[r EXCEPT !.title = t] : t \in ScoreTitles}
    \cup {[r EXCEPT !.snippet = sn] : sn \in ScoreSnippets}

\* C3: the score score_result returns is exactly the sum of the weights of the
\* signals that hold for the result and slug, each decided independently and
\* without regard to case; it never exceeds 100; and a result whose satisfied
\* signals include those of the scored one (after a change of its URL, title
\* or snippet) never scores less.
C3_ScoreIsSumOfSignals ==
    pc = "scored" =>
        /\ score = WeightSum(Signals(result, slug[1]))
        /\ score <= 100
        /\ \A r2 \in OneFieldChanged(result) :
              Signals(result, slug[1]) \subseteq Signals(r2, slug[1])
                  => score <= score_result(r2, slug[1])

\* Witness of C3: a scored result with several signals holding and others not
\* (slug in a non-profile URL, an education marker in upper case): 45 points.
C3_Witness ==
    /\ pc = "scored"
    /\ Signals(result, slug[1]) = {"slug", "education"}
    /\ score = 45

(***************************************************************************)
(* C2, C6: select_best_result                                              *)
(***************************************************************************)
ScoreAt(rs, sl, i) == score_result(rs[i], sl)

MaxScore(rs, sl) ==
    CHOOSE m \in {ScoreAt(rs, sl, i) : i \in 1..Len(rs)} :
        \A i \in 1..Len(rs) : ScoreAt(rs, sl, i) <= m

\* The least index whose result attains the maximum score.
FirstMaxIndex(rs, sl) ==
    CHOOSE i \in 1..Len(rs) :
        /\ ScoreAt(rs, sl, i) = MaxScore(rs, sl)
        /\ \A j \in 1..(i - 1) : ScoreAt(rs, sl, j) < MaxScore(rs, sl)

\* C2: for a non-empty result list, select_best_result returns at most one
\* candidate: when the maximum score is at least 50 (50 included), the result
\* that comes first in input order among those with the maximum score; when
\* the maximum score is below 50, no candidate.
C2_SelectsFirstMaxAtLeast50 ==
    pc = "selected" =>
        /\ Len(best) <= 1
        /\ MaxScore(results, slug[1]) >= 50
              => best = Some(results[FirstMaxIndex(results, slug[1])])
        /\ MaxScore(results, slug[1]) < 50 => best = NoValue

\* Witness of C2: the maximum score is exactly 50, two different results attain
\* it, and the one that came first is the candidate returned.
C2_Witness ==
    /\ pc = "selected"
    /\ MaxScore(results, slug[1]) = 50
    /\ \E i, j \in 1..Len(results) :
          /\ i < j
          /\ ScoreAt(results, slug[1], i) = 50
          /\ ScoreAt(results, slug[1], j) = 50
          /\ results[i] # results[j]
          /\ best = Some(results[i])

\* The permutations of a list.
PermutationsOf(rs) ==
    { [i \in 1..Len(rs) |-> rs[p[i]]] :
        p \in {q \in [1..Len(rs) -> 1..Len(rs)] :
                 \A a, b \in 1..Len(rs) : q[a] = q[b] => a = b} }

\* C6 as stated: permuting the result list changes neither the candidate
\* select_best_result chooses nor its score.
C6_PermutationKeepsCandidate ==
    pc = "selected" =>
        \A ps \in PermutationsOf(results) : select_best_result(ps, slug[1]) = best

\* The results that attain the maximum score.
MaxResultSet(rs, sl) ==
    {rs[i] : i \in {k \in 1..Len(rs) : ScoreAt(rs, sl, k) = MaxScore(rs, sl)}}

\* C6 amended: permuting the result list changes neither whether a candidate is
\* chosen nor the score of the chosen candidate; the chosen candidate itself is
\* the same whenever a single result attains the maximum score.
C6_PermutationKeepsScore ==
    pc = "selected" =>
        \A ps \in PermutationsOf(results) :
            LET b == select_best_result(ps, slug[1])
            IN  /\ (b = NoValue) = (best = NoValue)
                /\ b # NoValue =>
                      score_result(b[1], slug[1]) = score_result(best[1], slug[1])
                /\ Cardinality(MaxResultSet(results, slug[1])) = 1 => b = best

\* Witness of C6: the candidate chosen is the second of two results with
\* different scores, so a permutation moves it to the front.
C6_Witness ==
    /\ pc = "selected"
    /\ Len(results) = 2
    /\ best = Some(results[2])
    /\ ScoreAt(results, slug[1], 1) < ScoreAt(results, slug[1], 2)

(***************************************************************************)
(* C1, C4, C5, C8: the request handler                                     *)
(***************************************************************************)
\* A candidate is selected when some result reaches the acceptance threshold.
CandidateSelected(rs, sl) == \E i \in 1..Len(rs) : ScoreAt(rs, sl, i) >= 50

\* Some result URL contains the slug, compared without regard to case.
SomeUrlHasSlug(rs, sl) == \E i \in 1..Len(rs) : CIContains(sl, rs[i].url)

IsOutcome(resp, status, code, confidence) ==
    /\ resp["status"] = status
    /\ resp["reason_code"] = code
    /\ resp["confidence"] = confidence

\* C1: for a valid slug and the result list the search returned, the response
\* is the first matching rule of the decision tree: (1) no results ->
\* not_found / GOOGLE_NO_RESULTS / 0.2, empty payload; (2) no candidate and no
\* URL with the slug -> not_found / NO_SLUG_MATCH / 0.2, empty payload; (3) no
\* candidate but a URL with the slug -> ambiguous / MULTIPLE_CANDIDATES / 0.4,
\* payload the full list; (4) a candidate -> public_structured / PROFILE_PUBLIC
\* / 0.9, payload the chosen result, with structured_data; structured_data is
\* present in no other outcome.
C1_DecisionTree ==
    pc = "done" =>
        LET rs == results
            sl == slug[1]
        IN  /\ ("structured_data" \in DOMAIN response)
                  = (response["status"] = "public_structured")
            /\ CASE rs = <<>> ->
                      /\ IsOutcome(response, "not_found", "GOOGLE_NO_RESULTS", "0.2")
                      /\ response["raw_google_data"] = <<>>
                 [] rs # <<>> /\ ~CandidateSelected(rs, sl) /\ ~SomeUrlHasSlug(rs, sl) ->
                      /\ IsOutcome(response, "not_found", "NO_SLUG_MATCH", "0.2")
                      /\ response["raw_google_data"] = <<>>
                 [] rs # <<>> /\ ~CandidateSelected(rs, sl) /\ SomeUrlHasSlug(rs, sl) ->
                      /\ IsOutcome(response, "ambiguous", "MULTIPLE_CANDIDATES", "0.4")
                      /\ response["raw_google_data"] = rs
                 [] rs # <<>> /\ CandidateSelected(rs, sl) ->
                      /\ IsOutcome(response, "public_structured", "PROFILE_PUBLIC", "0.9")
                      /\ response["raw_google_data"] = rs[FirstMaxIndex(rs, sl)]
                      /\ "structured_data" \in DOMAIN response

\* Witness of C1: the ambiguous outcome, from a list whose only slug match is
\* an upper-case URL outside linkedin.com/in/ that scores below 50.
C1_Witness ==
    /\ pc = "done"
    /\ response["status"] = "ambiguous"
    /\ Len(results) = 2
    /\ \A i \in 1..Len(results) : ~Contains(slug[1], results[i].url)

\* Every way the search call can fail: the request or the decoding raises, the
\* body carries an error field, or the body is JSON of the wrong shape.
SearchFailed(rep) ==
    \/ rep.kind \in RAISING_KINDS
    \/ /\ rep.kind = "json"
       /\ \/ rep.data.type # "object"
          \/ "error" \in DOMAIN rep.data.members

\* C4: once validation has passed, every way the search call can end in
\* failure is treated as zero results: the request ends with not_found /
\* GOOGLE_NO_RESULTS / 0.2 and never with a fault.
C4_SearchFailureIsNoResults ==
    (pc \in {"searched", "done", "fault"} /\ SearchFailed(reply)) =>
        /\ pc # "fault"
        /\ results = <<>>
        /\ pc = "done" => IsOutcome(response, "not_found", "GOOGLE_NO_RESULTS", "0.2")

\* C5: when extract_slug yields no slug the request is rejected with a client
\* error (400), which is none of the four outcomes, and nothing but
\* extract_slug has been called: no search, no scoring, no selection.
C5_RejectedBeforeSearch ==
    pc # "start" =>
        /\ (slug = NoValue) = (pc = "rejected")
        /\ pc = "rejected" =>
              /\ calls = <<"extract_slug">>
              /\ response.status_code = 400
              /\ "status" \notin DOMAIN response
        /\ pc # "rejected" => calls[1] = "extract_slug" /\ slug # NoValue

\* Witness of C5: a URL that names linkedin.com/in/ but no slug is rejected.
C5_Witness ==
    /\ pc = "rejected"
    /\ CIContains(LINKEDIN_IN, url)
    /\ slug = NoValue

\* C8: whenever the response is public_structured, the URL of the chosen
\* result contains the requested slug, compared without regard to case.
C8_ChosenUrlHasSlug ==
    (pc = "done" /\ response["status"] = "public_structured") =>
        CIContains(slug[1], response["raw_google_data"].url)

(***************************************************************************)
(* C7, C9, C10: structure_google_snippet                                   *)
(***************************************************************************)
FieldNames == {"name", "about", "experience", "education", "location", "headline"}

\* C7: no field of the StructuredProfile is the empty string or "..."; a field
\* that was not found is absent from the mapping.
C7_NoEmptyOrEllipsisField ==
    pc = "structured" =>
        /\ DOMAIN data \subseteq FieldNames
        /\ \A k \in DOMAIN data : data[k] # EMPTY /\ data[k] # ELLIPSIS

\* The trimmed segments of a snippet.
Segments(sn) ==
    LET raw == SplitOn(sn, SEPARATORS) IN [i \in 1..Len(raw) |-> Strip(raw[i])]

\* The value a segment gives a keyed field: the text after its first colon
\* (the segment itself when it has no colon), trimmed.
SegmentValue(p) == LET sp == SplitOnce(p, ":") IN Strip(sp[Len(sp)])

\* The field keyed on word, decided by the first segment containing the word:
\* <<v>> when its value v is neither empty nor "...", <<>> otherwise.
FirstSegmentField(sn, word) ==
    LET parts == Segments(sn)
        hits  == {i \in 1..Len(parts) : CIContains(word, parts[i])}
    IN  IF hits = {} THEN NoValue
        ELSE LET i == CHOOSE i \in hits : \A j \in hits : i <= j
                 v == SegmentValue(parts[i])
             IN  IF v # EMPTY /\ v # ELLIPSIS THEN Some(v) ELSE NoValue

FieldOf(d, k) == IF k \in DOMAIN d THEN Some(d[k]) ELSE NoValue

\* C9: experience is decided by the first segment whose lower-case form
\* contains "experience": the trimmed text after its first colon, omitted when
\* that is empty or "..."; later segments do not affect it. education follows
\* the same rule keyed on "education".
C9_FirstSegmentDecidesField ==
    pc = "structured" =>
        /\ FieldOf(data, "experience") = FirstSegmentField(snippet, <<"e","x","p","e","r","i","e","n","c","e">>)  \* "experience"
        /\ FieldOf(data, "education") = FirstSegmentField(snippet, <<"e","d","u","c","a","t","i","o","n">>)  \* "education"

\* C10: about is the first non-empty trimmed segment of the snippet, omitted
\* when that segment is exactly "..."; an empty leading segment is skipped.
C10_AboutIsFirstNonEmptySegment ==
    pc = "structured" =>
        LET parts == Segments(snippet)
            full  == {i \in 1..Len(parts) : parts[i] # EMPTY}
        IN  IF full = {} THEN "about" \notin DOMAIN data
            ELSE LET i == CHOOSE i \in full : \A j \in full : i <= j
                 IN  IF parts[i] = ELLIPSIS THEN "about" \notin DOMAIN data
                     ELSE FieldOf(data, "about") = Some(parts[i])

====
